---- MODULE Spec2Model ----
(***************************************************************************)
(* A model of the notebook demo_mnist_svm.ipynb: one kernel namespace      *)
(* (env), the snapshot files on disk (files), the open file handles        *)
(* (handles), the figures last drawn (fig, errfig), and the position of    *)
(* the top-to-bottom execution (pc, phase).  Every code cell is one        *)
(* action; a cell whose body is a `with open(...)` statement takes three   *)
(* steps (open, body, exit) so that the life of the handle is visible.     *)
(*                                                                         *)
(* Scaling.  MNIST has 60000 + 10000 images of 28 x 28 pixels and the      *)
(* notebook sub-samples 5000 of each.  The model keeps the code and        *)
(* shrinks the data: ntr <= MaxNtr, nts <= MaxNts images of                *)
(* ImgRows x ImgCols pixels, sub-samples of Ntr1 and Nts1, and error       *)
(* plots of NpltErr panels (nplt = 4 in the notebook).                     *)
(*                                                                         *)
(* Floating point numbers are modelled by exact rationals <<num, den>> in  *)
(* lowest terms, den > 0; <<1,0>>, <<-1,0>> and <<0,0>> stand for numpy's  *)
(* inf, -inf and nan.                                                      *)
(***************************************************************************)
EXTENDS Integers, Sequences, FiniteSets, TLC

VARIABLES pc, phase, env, files, handles, fig, errfig, last, restarted, mnist, clean

vars == <<pc, phase, env, files, handles, fig, errfig, last, restarted, mnist, clean>>

(***************************************************************************)
(* Bounds of the model (scaled data sizes).                                *)
(***************************************************************************)
MaxNtr == 2
MaxNts == 2
Ntr1 == 1
Nts1 == 2
ImgRows == 2
ImgCols == 3
NpltErr == 1

(***************************************************************************)
(* Program constants.                                                      *)
(***************************************************************************)
MaxPixel == 255
NpltDigits == 8

(***************************************************************************)
(* Rational arithmetic standing for float arithmetic.                      *)
(***************************************************************************)
Abs(x) == IF x < 0 THEN -x ELSE x

Sign(x) == IF x < 0 THEN -1 ELSE IF x > 0 THEN 1 ELSE 0

Min(a, b) == IF a <= b THEN a ELSE b

RECURSIVE Gcd(_, _)
Gcd(a, b) == IF b = 0 THEN a ELSE Gcd(b, a % b)

Rat(n, d) ==
    IF d = 0 THEN <<Sign(n), 0>>
    ELSE LET g == Gcd(Abs(n), Abs(d))
         IN  <<(Sign(d) * n) \div g, Abs(d) \div g>>

RDiv(x, y) == Rat(x[1] * y[2], x[2] * y[1])

RSub(x, y) == Rat(x[1] * y[2] - y[1] * x[2], x[2] * y[2])

RMul(x, y) == Rat(x[1] * y[1], x[2] * y[2])

RAdd(x, y) == Rat(x[1] * y[2] + y[1] * x[2], x[2] * y[2])

RInt(n) == <<n, 1>>

Half == <<1, 2>>

(***************************************************************************)
(* The data set returned by tf.keras.datasets.mnist.load_data(): ntr       *)
(* training and nts test images of raw pixels 0..MaxPixel with integer     *)
(* labels.  Images of different samples differ; training image 1 holds     *)
(* the pixel values 0 and 255.                                             *)
(***************************************************************************)
SetOffset(set) == IF set = "train" THEN 0 ELSE 100

RawPixel(set, n, r, c) ==
    (85 * (SetOffset(set) + (n - 1) + (r - 1) * ImgCols + (c - 1))) % (MaxPixel + 1)

RawImages(set, count) ==
    [n \in 1..count |-> [r \in 1..ImgRows |-> [c \in 1..ImgCols |-> RawPixel(set, n, r, c)]]]

RawLabel(set, n) == IF set = "train" THEN n - 1 ELSE n \div 2

RawLabels(set, count) == [n \in 1..count |-> RawLabel(set, n)]

(***************************************************************************)
(* numpy operations used by the notebook.                                  *)
(***************************************************************************)
RECURSIVE Concat(_)
Concat(ss) == IF ss = <<>> THEN <<>> ELSE Head(ss) \o Concat(Tail(ss))

\* a.reshape((n, m)) of a 3-d array: the elements in C order, regrouped
Ravel3(a) == Concat(Concat(a))

\* faulty variant: the elements regrouped in column-major (Fortran) order
RegroupFortran(flat, n, m) == [i \in 1..n |-> [j \in 1..m |-> flat[(j - 1) * n + i]]]

Regroup(flat, n, m) == [i \in 1..n |-> SubSeq(flat, (i - 1) * m + 1, i * m)]

ReshapeOk(size, n, m) == size = n * m

\* faulty variant: 2*a/255 - 0.5, the parentheses forgotten
RescaleValueNoParens(v) == RSub(RDiv(RMul(RInt(2), RInt(v)), RInt(255)), Half)

\* elementwise 2*(a/255 - 0.5) on a 3-d array
RescaleValue(v) == RMul(RInt(2), RSub(RDiv(RInt(v), RInt(255)), Half))

RescaleArray(a) ==
    [n \in 1..Len(a) |-> [r \in 1..Len(a[n]) |-> [c \in 1..Len(a[n][r]) |->
        RescaleValue(a[n][r][c])]]]

\* s[:k]
Prefix(s, k) == SubSeq(s, 1, Min(k, Len(s)))

\* faulty variant: the rows a[:len(idx)] instead of a[idx]
TakeLeading(a, idx) == [k \in 1..Len(idx) |-> a[k]]

\* a[idx] / a[idx,:] with an index array (indices here count from 1)
Take(a, idx) == [k \in 1..Len(idx) |-> a[idx[k]]]

\* the outcomes of np.random.permutation(n)
RandomPermutations(n) ==
    {p \in [1..n -> 1..n] : \A i, j \in 1..n : p[i] = p[j] => i = j}

\* np.mean(a == b) for two label vectors of one length
RECURSIVE CountTrue(_)
CountTrue(bs) ==
    IF bs = <<>> THEN 0 ELSE (IF Head(bs) THEN 1 ELSE 0) + CountTrue(Tail(bs))

EqualElementwise(a, b) == [i \in 1..Len(a) |-> a[i] = b[i]]

\* faulty variant: the mean taken over one element too many
MeanOffByOne(bs) == Rat(CountTrue(bs), Len(bs) + 1)

Mean(bs) == Rat(CountTrue(bs), Len(bs))

(***************************************************************************)
(* sklearn.metrics.confusion_matrix(y_true, y_pred): the classes are the   *)
(* sorted labels that occur in either vector; entry [i][j] counts the      *)
(* samples of true class i predicted as class j.                           *)
(***************************************************************************)
Range(s) == {s[k] : k \in 1..Len(s)}

RECURSIVE SortedSeq(_)
SortedSeq(S) ==
    IF S = {} THEN <<>>
    ELSE LET m == CHOOSE x \in S : \A y \in S : x <= y
         IN  <<m>> \o SortedSeq(S \ {m})

IndexOf(s, x) == CHOOSE i \in 1..Len(s) : s[i] = x

\* a != b, elementwise
NotEqualElementwise(a, b) == [i \in 1..Len(a) |-> a[i] # b[i]]

\* faulty variant: the positions that hold False
WhereFalse(bs) == SortedSeq({i \in 1..Len(bs) : ~bs[i]})

\* np.where(bs)[0]: the positions that hold True, in ascending order
Where(bs) == SortedSeq({i \in 1..Len(bs) : bs[i]})

ClassLabels(ytrue, ypred) == SortedSeq(Range(ytrue) \cup Range(ypred))

RECURSIVE Accumulate(_, _, _, _)
Accumulate(M, labels, ytrue, ypred) ==
    IF ytrue = <<>> THEN M
    ELSE LET i == IndexOf(labels, Head(ytrue))
             j == IndexOf(labels, Head(ypred))
         IN  Accumulate([M EXCEPT ![i][j] = @ + 1], labels, Tail(ytrue), Tail(ypred))

ConfusionMatrix(ytrue, ypred) ==
    LET labels == ClassLabels(ytrue, ypred)
        n == Len(labels)
    IN  Accumulate([i \in 1..n |-> [j \in 1..n |-> 0]], labels, ytrue, ypred)

RECURSIVE SumSeq(_)
SumSeq(s) == IF s = <<>> THEN 0 ELSE Head(s) + SumSeq(Tail(s))

\* np.sum(C, 1): the sum along axis 1, one entry per row
SumAxis1(M) == [i \in 1..Len(M) |-> SumSeq(M[i])]

\* M / v[None,:]: v is broadcast as one row, so entry [i][j] is divided by v[j]
DivideByRowVector(M, v) ==
    [i \in 1..Len(M) |-> [j \in 1..Len(M[i]) |-> Rat(M[i][j], v[j])]]

(***************************************************************************)
(* The classifiers of the library.  An estimator is created unfitted; fit  *)
(* records what it was fitted on; predict is a function of the fitted      *)
(* state and the sample.  The library's decision function is opaque to     *)
(* the notebook: DecisionIndex is a fixed stand-in that picks one of the   *)
(* training labels from the sample's content and the kind of estimator.    *)
(***************************************************************************)
NewClassifier(kind) == [kind |-> kind, fitted |-> FALSE, X |-> <<>>, y |-> <<>>]

Fit(clf, X, y) == [clf EXCEPT !.fitted = TRUE, !.X = X, !.y = y]

Salt(kind) == CASE kind = "logreg" -> 0 [] kind = "linear" -> 1 [] OTHER -> 2

SampleKey(x) == SumSeq([p \in 1..Len(x) |-> Abs(x[p][1])])

DecisionIndex(clf, x) == ((SampleKey(x) + Salt(clf.kind)) % Len(clf.y)) + 1

Predict(clf, X) == [k \in 1..Len(X) |-> clf.y[DecisionIndex(clf, X[k])]]

(***************************************************************************)
(* The kernel namespace.  env[name] is <<>> while the name is unbound and  *)
(* <<value>> once it is bound.                                             *)
(***************************************************************************)
Names == {"Xtr", "ytr", "Xts", "yts", "ntr", "nts", "nrow", "ncol", "npix",
          "nplt", "Iperm", "ntr1", "Xtr1", "ytr1", "logreg", "nts1",
          "Iperm_ts", "Xts1", "yts1", "yhat", "acc", "C", "Csum", "svc",
          "yhat_ts", "svcrbf", "Ierr"}

Bound(e, name) == e[name] # <<>>

Val(e, name) == e[name][1]

Bind(e, name, v) == [e EXCEPT ![name] = <<v>>]

EmptyEnv == [name \in Names |-> <<>>]

(***************************************************************************)
(* The snapshot files: absent, or present with the pickled list (the       *)
(* empty list right after open(..., "wb") has truncated the file).         *)
(***************************************************************************)
FileNames == {"mnist_logreg.p", "mnist_svc.p", "mnist_svc_test.p",
              "mnist_svcrbf.p", "mnist_svcrbf_test.p"}

Absent == [exists |-> FALSE, data |-> <<>>]

\* the Python type of the object each name of the notebook is bound to
PyType(name) ==
    IF name \in {"logreg", "svc", "svcrbf"} THEN "classifier"
    ELSE IF name \in {"ntr", "nts", "nrow", "ncol", "npix", "nplt", "ntr1", "nts1"}
    THEN "int"
    ELSE IF name = "acc" THEN "float"
    ELSE "ndarray"

\* pickle.dump([v1, ..., vk], fp): the listed objects, each with its type, in
\* list order
Pickle(e, names) ==
    [i \in 1..Len(names) |-> [type |-> PyType(names[i]), value |-> Val(e, names[i])]]

\* a, b, c = pickle.load(fp): the i-th target gets the i-th entry of the list
RECURSIVE Unpack(_, _, _)
Unpack(e, targets, data) ==
    IF targets = <<>> THEN e
    ELSE Unpack(Bind(e, Head(targets), Head(data).value), Tail(targets), Tail(data))

(***************************************************************************)
(* The code cells in notebook order, and the ones the notebook marks as    *)
(* skippable ("Can skip ...", "skip if ...").                              *)
(***************************************************************************)
Cells == <<"LoadData", "Rescale", "PlotDigits", "SubsampleTrain", "FitLogreg",
           "DumpLogreg", "LoadLogreg", "AccLogreg", "ErrLogreg", "Confusion",
           "CreateSvc",
           "SubsampleSvc", "FitSvc", "DumpSvc", "LoadSvc", "PredictSvc",
           "DumpSvcTest", "LoadSvcTest", "AccSvc", "CreateSvcrbf",
           "FitDumpSvcrbf", "LoadSvcrbf", "PredictDumpSvcrbf",
           "LoadSvcrbfTest", "AccSvcrbf", "ErrSvcrbf">>

Skippable == {"LoadSvc", "FitDumpSvcrbf", "LoadSvcrbf", "PredictDumpSvcrbf",
              "LoadSvcrbfTest"}

CellIndex(c) == CHOOSE i \in 1..Len(Cells) : Cells[i] = c

Start == [at |-> "start", exc |-> "none"]

\* the cell c is the next one to run
AtCell(c) == pc <= Len(Cells) /\ Cells[pc] = c /\ phase.at = "start"

\* the cell c is inside its with-statement, at the given step
InCell(c, at) == pc <= Len(Cells) /\ Cells[pc] = c /\ phase.at = at

\* the cells that only draw; a fault in one of them leaves every binding the
\* later cells read as a complete execution of the cell does
PlotCells == {"PlotDigits", "ErrLogreg", "ErrSvcrbf"}

\* the cell c ends (exc = "none") or is terminated by the uncaught fault exc;
\* the kernel keeps the namespace e and goes on to the next cell.  clean
\* records whether the current run is still an orderly top-to-bottom
\* execution: no computing cell was cut short by a fault and no cell was
\* skipped without what its remark asks for.
Finish(c, e, exc) ==
    /\ pc' = pc + 1
    /\ phase' = Start
    /\ env' = e
    /\ last' = [cell |-> c, fault |-> exc]
    /\ clean' = (clean /\ (exc = "none" \/ c \in PlotCells))

(***************************************************************************)
(* with open(f, mode) as fp: body                                          *)
(***************************************************************************)
Handle(f, mode) == [file |-> f, mode |-> mode]

\* faulty variant: a mode that creates the file when it is missing
WithOpenCreating(c, f, mode, e) ==
    /\ files' = IF mode = "wb" \/ ~files[f].exists
                THEN [files EXCEPT ![f] = [exists |-> TRUE, data |-> <<>>]]
                ELSE files
    /\ handles' = handles \cup {Handle(f, mode)}
    /\ phase' = [at |-> "body", exc |-> "none"]
    /\ env' = e
    /\ UNCHANGED <<pc, last, clean>>

\* open(f, mode), after the statements of cell c that precede it gave e
WithOpen(c, f, mode, e) ==
    IF mode = "rb" /\ ~files[f].exists
    THEN /\ Finish(c, e, "FileNotFoundError")
         /\ UNCHANGED <<files, handles>>
    ELSE /\ files' = IF mode = "wb"
                     THEN [files EXCEPT ![f] = [exists |-> TRUE, data |-> <<>>]]
                     ELSE files
         /\ handles' = handles \cup {Handle(f, mode)}
         /\ phase' = [at |-> "body", exc |-> "none"]
         /\ env' = e
         /\ UNCHANGED <<pc, last, clean>>

\* pickle.dump([names], fp)
WithDump(f, names) ==
    /\ files' = [files EXCEPT ![f].data = Pickle(env, names)]
    /\ phase' = [at |-> "exit", exc |-> "none"]
    /\ UNCHANGED <<pc, env, handles, last, clean>>

\* targets = pickle.load(fp); the load may also fail on the snapshot's bytes
WithLoad(f, targets) ==
    LET data == files[f].data
    IN  /\ \/ /\ Len(data) = Len(targets)
              /\ env' = Unpack(env, targets, data)
              /\ phase' = [at |-> "exit", exc |-> "none"]
           \/ /\ env' = env
              /\ phase' = [at |-> "exit",
                           exc |-> IF data = <<>> THEN "EOFError"
                                   ELSE IF Len(data) # Len(targets) THEN "ValueError"
                                   ELSE "UnpicklingError"]
        /\ UNCHANGED <<pc, files, handles, last, clean>>

\* faulty variant: fp = open(...); body; fp.close() without a with-statement: a fault
\* in the body skips the close
ExitWithoutClose(c, f, mode) ==
    /\ handles' = IF phase.exc = "none" THEN handles \ {Handle(f, mode)} ELSE handles
    /\ Finish(c, env, phase.exc)
    /\ UNCHANGED files

\* leaving the with-block closes fp, whether or not the body faulted
WithExit(c, f, mode) ==
    /\ handles' = handles \ {Handle(f, mode)}
    /\ Finish(c, env, phase.exc)
    /\ UNCHANGED files

(***************************************************************************)
(* The lists pickled by the dump cells and the targets of the load cells.  *)
(***************************************************************************)
DumpLogregList == <<"logreg", "Xtr1", "ytr1", "Iperm">>
LoadLogregTargets == <<"logreg", "Xtr1", "ytr1", "Iperm">>
DumpSvcList == <<"svc", "Xtr1", "ytr1">>
LoadSvcTargets == <<"svc", "Xtr1", "ytr1">>
\* faulty variant: the test snapshot also pickles the classifier
DumpSvcTestWithModel == <<"svc", "Xts1", "yts1">>

DumpSvcTestList == <<"Xts1", "yts1", "yhat_ts">>
\* faulty variant: the last two targets exchanged
LoadSvcTestSwapped == <<"Xts1", "yhat_ts", "yts1">>

LoadSvcTestTargets == <<"Xts1", "yts1", "yhat_ts">>
DumpSvcrbfList == <<"svcrbf", "Xtr1", "ytr1">>
LoadSvcrbfTargets == <<"svcrbf", "Xtr1", "ytr1">>
DumpSvcrbfTestList == <<"yhat_ts", "yts1", "Xts1">>
LoadSvcrbfTestTargets == <<"yhat_ts", "yts1", "Xts1">>

(***************************************************************************)
(* plt_digit(ax, x): x reshaped to the hard-coded image size (the size of  *)
(* the data set's images) and shown on the axes.                           *)
(***************************************************************************)
PltRows == ImgRows
PltCols == ImgCols

PltDigit(x) == Regroup(x, PltRows, PltCols)

(***************************************************************************)
(* Initial state: a fresh kernel, no snapshot file on disk, and the data   *)
(* set the loader will return.                                             *)
(***************************************************************************)
Init ==
    /\ pc = 1
    /\ phase = Start
    /\ env = EmptyEnv
    /\ files = [f \in FileNames |-> Absent]
    /\ handles = {}
    /\ fig = <<>>
    /\ errfig = <<>>
    /\ last = [cell |-> "none", fault |-> "none"]
    /\ restarted = FALSE
    /\ clean = TRUE
    /\ \E a \in 1..MaxNtr, b \in 1..MaxNts : mnist = [ntr |-> a, nts |-> b]

(***************************************************************************)
(* The cells.                                                              *)
(***************************************************************************)
LoadData ==
    /\ AtCell("LoadData")
    /\ LET e1 == Bind(Bind(Bind(Bind(env,
                    "Xtr", RawImages("train", mnist.ntr)),
                    "ytr", RawLabels("train", mnist.ntr)),
                    "Xts", RawImages("test", mnist.nts)),
                    "yts", RawLabels("test", mnist.nts))
           e2 == Bind(Bind(e1, "ntr", Len(Val(e1, "Xtr"))), "nts", Len(Val(e1, "Xts")))
           e3 == Bind(Bind(e2, "nrow", Len(Val(e2, "Xtr")[1])),
                               "ncol", Len(Val(e2, "Xtr")[1][1]))
       IN  Finish("LoadData", e3, "none")
    /\ UNCHANGED <<files, handles, fig, errfig, restarted, mnist>>

Rescale ==
    /\ AtCell("Rescale")
    /\ LET e1 == Bind(env, "npix", Val(env, "nrow") * Val(env, "ncol"))
           npix == Val(e1, "npix")
           e2 == Bind(e1, "Xtr", RescaleArray(Val(e1, "Xtr")))
           ftr == Ravel3(Val(e2, "Xtr"))
           e3 == Bind(e2, "Xtr", Regroup(ftr, Val(e2, "ntr"), npix))
           e4 == Bind(e3, "Xts", RescaleArray(Val(e3, "Xts")))
           fts == Ravel3(Val(e4, "Xts"))
           e5 == Bind(e4, "Xts", Regroup(fts, Val(e4, "nts"), npix))
       IN  IF ~ReshapeOk(Len(ftr), Val(e2, "ntr"), npix)
           THEN Finish("Rescale", e2, "ValueError")
           ELSE IF ~ReshapeOk(Len(fts), Val(e4, "nts"), npix)
           THEN Finish("Rescale", e4, "ValueError")
           ELSE Finish("Rescale", e5, "none")
    /\ UNCHANGED <<files, handles, fig, errfig, restarted, mnist>>

PlotDigits ==
    /\ AtCell("PlotDigits")
    /\ \E p \in RandomPermutations(Val(env, "ntr")) :
         LET e1 == Bind(Bind(env, "nplt", NpltDigits), "Iperm", p)
             Xtr == Val(e1, "Xtr")
             shown == Min(NpltDigits, Len(p))
         IN  IF \E i \in 1..shown : ~ReshapeOk(Len(Xtr[p[i]]), PltRows, PltCols)
             THEN fig' = <<>> /\ Finish("PlotDigits", e1, "ValueError")
             ELSE /\ fig' = [i \in 1..shown |-> PltDigit(Xtr[p[i]])]
                  /\ Finish("PlotDigits", e1,
                            IF Len(p) < NpltDigits THEN "IndexError" ELSE "none")
    /\ UNCHANGED <<files, handles, errfig, restarted, mnist>>

SubsampleTrain ==
    /\ AtCell("SubsampleTrain")
    /\ LET e1 == Bind(env, "ntr1", Ntr1)
           idx == Prefix(Val(e1, "Iperm"), Val(e1, "ntr1"))
           e2 == Bind(e1, "Xtr1", Take(Val(e1, "Xtr"), idx))
           e3 == Bind(e2, "ytr1", Take(Val(e2, "ytr"), idx))
       IN  Finish("SubsampleTrain", e3, "none")
    /\ UNCHANGED <<files, handles, fig, errfig, restarted, mnist>>

FitLogreg ==
    /\ AtCell("FitLogreg")
    /\ LET e1 == Bind(env, "logreg", NewClassifier("logreg"))
           e2 == Bind(e1, "logreg",
                      Fit(Val(e1, "logreg"), Val(e1, "Xtr1"), Val(e1, "ytr1")))
       IN  Finish("FitLogreg", e2, "none")
    /\ UNCHANGED <<files, handles, fig, errfig, restarted, mnist>>

DumpLogreg ==
    /\ \/ AtCell("DumpLogreg") /\ WithOpen("DumpLogreg", "mnist_logreg.p", "wb", env)
       \/ InCell("DumpLogreg", "body") /\ WithDump("mnist_logreg.p", DumpLogregList)
       \/ InCell("DumpLogreg", "exit") /\ WithExit("DumpLogreg", "mnist_logreg.p", "wb")
    /\ UNCHANGED <<fig, errfig, restarted, mnist>>

LoadLogreg ==
    /\ \/ AtCell("LoadLogreg") /\ WithOpen("LoadLogreg", "mnist_logreg.p", "rb", env)
       \/ InCell("LoadLogreg", "body") /\ WithLoad("mnist_logreg.p", LoadLogregTargets)
       \/ InCell("LoadLogreg", "exit") /\ WithExit("LoadLogreg", "mnist_logreg.p", "rb")
    /\ UNCHANGED <<fig, errfig, restarted, mnist>>

AccLogreg ==
    /\ AtCell("AccLogreg")
    /\ \E p \in RandomPermutations(Val(env, "nts")) :
         LET e1 == Bind(Bind(env, "nts1", Nts1), "Iperm_ts", p)
             idx == Prefix(Val(e1, "Iperm_ts"), Val(e1, "nts1"))
             e2 == Bind(e1, "Xts1", Take(Val(e1, "Xts"), idx))
             e3 == Bind(e2, "yts1", Take(Val(e2, "yts"), idx))
             e4 == Bind(e3, "yhat", Predict(Val(e3, "logreg"), Val(e3, "Xts1")))
             e5 == Bind(e4, "acc",
                        Mean(EqualElementwise(Val(e4, "yhat"), Val(e4, "yts1"))))
         IN  IF ~Val(e3, "logreg").fitted
             THEN Finish("AccLogreg", e3, "NotFittedError")
             ELSE Finish("AccLogreg", e5, "none")
    /\ UNCHANGED <<files, handles, fig, errfig, restarted, mnist>>

\* the error-plot cells: nplt panels, panel i showing the sample Ierr[i] with
\* its true and its estimated label; Ierr[i] raises IndexError when fewer
\* than nplt labels differ, after the panels before it have been drawn
ErrorPanel(X, y, yh, ind) ==
    [image |-> PltDigit(X[ind]), true |-> y[ind], est |-> yh[ind]]

ErrorPlot(c, e) ==
    LET Ierr == Val(e, "Ierr")
        X == Val(e, "Xts1")
        y == Val(e, "yts1")
        yh == Val(e, IF c = "ErrLogreg" THEN "yhat" ELSE "yhat_ts")
        shown == Min(Val(e, "nplt"), Len(Ierr))
    IN  IF \E i \in 1..shown : ~ReshapeOk(Len(X[Ierr[i]]), PltRows, PltCols)
        THEN errfig' = <<>> /\ Finish(c, e, "ValueError")
        ELSE /\ errfig' = [i \in 1..shown |-> ErrorPanel(X, y, yh, Ierr[i])]
             /\ Finish(c, e, IF Len(Ierr) < Val(e, "nplt") THEN "IndexError" ELSE "none")

ErrLogreg ==
    /\ AtCell("ErrLogreg")
    /\ LET e1 == Bind(env, "nplt", NpltErr)
           e2 == Bind(e1, "Ierr",
                      Where(NotEqualElementwise(Val(e1, "yts1"), Val(e1, "yhat"))))
       IN  ErrorPlot("ErrLogreg", e2)
    /\ UNCHANGED <<files, handles, fig, restarted, mnist>>

Confusion ==
    /\ AtCell("Confusion")
    /\ LET e1 == Bind(env, "C", ConfusionMatrix(Val(env, "yts1"), Val(env, "yhat")))
           e2 == Bind(e1, "Csum", SumAxis1(Val(e1, "C")))
           e3 == Bind(e2, "C", DivideByRowVector(Val(e2, "C"), Val(e2, "Csum")))
       IN  Finish("Confusion", e3, "none")
    /\ UNCHANGED <<files, handles, fig, errfig, restarted, mnist>>

CreateSvc ==
    /\ AtCell("CreateSvc")
    /\ Finish("CreateSvc", Bind(env, "svc", NewClassifier("linear")), "none")
    /\ UNCHANGED <<files, handles, fig, errfig, restarted, mnist>>

SubsampleSvc ==
    /\ AtCell("SubsampleSvc")
    /\ LET e1 == Bind(Bind(env, "ntr1", Ntr1), "nts1", Nts1)
           itr == Prefix(Val(e1, "Iperm"), Val(e1, "ntr1"))
           its == Prefix(Val(e1, "Iperm_ts"), Val(e1, "nts1"))
           e2 == Bind(e1, "Xtr1", Take(Val(e1, "Xtr"), itr))
           e3 == Bind(e2, "ytr1", Take(Val(e2, "ytr"), itr))
           e4 == Bind(e3, "Xts1", Take(Val(e3, "Xts"), its))
           e5 == Bind(e4, "yts1", Take(Val(e4, "yts"), its))
       IN  Finish("SubsampleSvc", e5, "none")
    /\ UNCHANGED <<files, handles, fig, errfig, restarted, mnist>>

FitSvc ==
    /\ AtCell("FitSvc")
    /\ Finish("FitSvc",
              Bind(env, "svc", Fit(Val(env, "svc"), Val(env, "Xtr"), Val(env, "ytr"))),
              "none")
    /\ UNCHANGED <<files, handles, fig, errfig, restarted, mnist>>

DumpSvc ==
    /\ \/ AtCell("DumpSvc") /\ WithOpen("DumpSvc", "mnist_svc.p", "wb", env)
       \/ InCell("DumpSvc", "body") /\ WithDump("mnist_svc.p", DumpSvcList)
       \/ InCell("DumpSvc", "exit") /\ WithExit("DumpSvc", "mnist_svc.p", "wb")
    /\ UNCHANGED <<fig, errfig, restarted, mnist>>

LoadSvc ==
    /\ \/ AtCell("LoadSvc") /\ WithOpen("LoadSvc", "mnist_svc.p", "rb", env)
       \/ InCell("LoadSvc", "body") /\ WithLoad("mnist_svc.p", LoadSvcTargets)
       \/ InCell("LoadSvc", "exit") /\ WithExit("LoadSvc", "mnist_svc.p", "rb")
    /\ UNCHANGED <<fig, errfig, restarted, mnist>>

PredictSvc ==
    /\ AtCell("PredictSvc")
    /\ IF ~Val(env, "svc").fitted
       THEN Finish("PredictSvc", env, "NotFittedError")
       ELSE Finish("PredictSvc",
                   Bind(env, "yhat_ts", Predict(Val(env, "svc"), Val(env, "Xts1"))),
                   "none")
    /\ UNCHANGED <<files, handles, fig, errfig, restarted, mnist>>

DumpSvcTest ==
    /\ \/ AtCell("DumpSvcTest") /\ WithOpen("DumpSvcTest", "mnist_svc_test.p", "wb", env)
       \/ InCell("DumpSvcTest", "body") /\ WithDump("mnist_svc_test.p", DumpSvcTestList)
       \/ InCell("DumpSvcTest", "exit") /\ WithExit("DumpSvcTest", "mnist_svc_test.p", "wb")
    /\ UNCHANGED <<fig, errfig, restarted, mnist>>

LoadSvcTest ==
    /\ \/ AtCell("LoadSvcTest") /\ WithOpen("LoadSvcTest", "mnist_svc_test.p", "rb", env)
       \/ InCell("LoadSvcTest", "body") /\ WithLoad("mnist_svc_test.p", LoadSvcTestTargets)
       \/ InCell("LoadSvcTest", "exit") /\ WithExit("LoadSvcTest", "mnist_svc_test.p", "rb")
    /\ UNCHANGED <<fig, errfig, restarted, mnist>>

AccSvc ==
    /\ AtCell("AccSvc")
    /\ Finish("AccSvc",
              Bind(env, "acc",
                   Mean(EqualElementwise(Val(env, "yhat_ts"), Val(env, "yts1")))),
              "none")
    /\ UNCHANGED <<files, handles, fig, errfig, restarted, mnist>>

CreateSvcrbf ==
    /\ AtCell("CreateSvcrbf")
    /\ Finish("CreateSvcrbf", Bind(env, "svcrbf", NewClassifier("rbf")), "none")
    /\ UNCHANGED <<files, handles, fig, errfig, restarted, mnist>>

FitDumpSvcrbf ==
    /\ \/ /\ AtCell("FitDumpSvcrbf")
          /\ WithOpen("FitDumpSvcrbf", "mnist_svcrbf.p", "wb",
                      Bind(env, "svcrbf",
                           Fit(Val(env, "svcrbf"), Val(env, "Xtr1"), Val(env, "ytr1"))))
       \/ InCell("FitDumpSvcrbf", "body") /\ WithDump("mnist_svcrbf.p", DumpSvcrbfList)
       \/ InCell("FitDumpSvcrbf", "exit") /\ WithExit("FitDumpSvcrbf", "mnist_svcrbf.p", "wb")
    /\ UNCHANGED <<fig, errfig, restarted, mnist>>

LoadSvcrbf ==
    /\ \/ AtCell("LoadSvcrbf") /\ WithOpen("LoadSvcrbf", "mnist_svcrbf.p", "rb", env)
       \/ InCell("LoadSvcrbf", "body") /\ WithLoad("mnist_svcrbf.p", LoadSvcrbfTargets)
       \/ InCell("LoadSvcrbf", "exit") /\ WithExit("LoadSvcrbf", "mnist_svcrbf.p", "rb")
    /\ UNCHANGED <<fig, errfig, restarted, mnist>>

PredictDumpSvcrbf ==
    /\ \/ /\ AtCell("PredictDumpSvcrbf")
          /\ IF ~Val(env, "svcrbf").fitted
             THEN /\ Finish("PredictDumpSvcrbf", env, "NotFittedError")
                  /\ UNCHANGED <<files, handles>>
             ELSE WithOpen("PredictDumpSvcrbf", "mnist_svcrbf_test.p", "wb",
                           Bind(env, "yhat_ts",
                                Predict(Val(env, "svcrbf"), Val(env, "Xts1"))))
       \/ /\ InCell("PredictDumpSvcrbf", "body")
          /\ WithDump("mnist_svcrbf_test.p", DumpSvcrbfTestList)
       \/ /\ InCell("PredictDumpSvcrbf", "exit")
          /\ WithExit("PredictDumpSvcrbf", "mnist_svcrbf_test.p", "wb")
    /\ UNCHANGED <<fig, errfig, restarted, mnist>>

LoadSvcrbfTest ==
    /\ \/ /\ AtCell("LoadSvcrbfTest")
          /\ WithOpen("LoadSvcrbfTest", "mnist_svcrbf_test.p", "rb", env)
       \/ /\ InCell("LoadSvcrbfTest", "body")
          /\ WithLoad("mnist_svcrbf_test.p", LoadSvcrbfTestTargets)
       \/ /\ InCell("LoadSvcrbfTest", "exit")
          /\ WithExit("LoadSvcrbfTest", "mnist_svcrbf_test.p", "rb")
    /\ UNCHANGED <<fig, errfig, restarted, mnist>>

AccSvcrbf ==
    /\ AtCell("AccSvcrbf")
    /\ Finish("AccSvcrbf",
              Bind(env, "acc",
                   Mean(EqualElementwise(Val(env, "yhat_ts"), Val(env, "yts1")))),
              "none")
    /\ UNCHANGED <<files, handles, fig, errfig, restarted, mnist>>

ErrSvcrbf ==
    /\ AtCell("ErrSvcrbf")
    /\ LET e1 == Bind(env, "Ierr",
                      Where(NotEqualElementwise(Val(env, "yhat_ts"), Val(env, "yts1"))))
           e2 == Bind(e1, "nplt", NpltErr)
       IN  ErrorPlot("ErrSvcrbf", e2)
    /\ UNCHANGED <<files, handles, fig, restarted, mnist>>

(***************************************************************************)
(* The user leaves out a cell the notebook marks as skippable, or, at the  *)
(* end of the notebook, restarts the kernel and runs the notebook again:   *)
(* the namespace is lost, the snapshot files stay.  One restart is         *)
(* modelled.                                                               *)
(***************************************************************************)
\* what the remark of a skippable cell asks for: the cells that compute and
\* dump may be skipped when their result is loaded from the snapshot file of
\* an earlier run, the cells that load when the cell before them was run
SkipBacked(c) ==
    CASE c = "FitDumpSvcrbf" -> files["mnist_svcrbf.p"].exists
      [] c = "PredictDumpSvcrbf" -> files["mnist_svcrbf_test.p"].exists
      [] OTHER -> last = [cell |-> Cells[CellIndex(c) - 1], fault |-> "none"]

Skip ==
    /\ pc <= Len(Cells)
    /\ phase.at = "start"
    /\ Cells[pc] \in Skippable
    /\ pc' = pc + 1
    /\ last' = [cell |-> Cells[pc], fault |-> "skipped"]
    /\ clean' = (clean /\ SkipBacked(Cells[pc]))
    /\ UNCHANGED <<phase, env, files, handles, fig, errfig, restarted, mnist>>

Restart ==
    /\ pc = Len(Cells) + 1
    /\ ~restarted
    /\ restarted' = TRUE
    /\ pc' = 1
    /\ phase' = Start
    /\ env' = EmptyEnv
    /\ handles' = {}
    /\ fig' = <<>>
    /\ errfig' = <<>>
    /\ last' = [cell |-> "Restart", fault |-> "none"]
    /\ clean' = TRUE
    /\ UNCHANGED <<files, mnist>>

Next ==
    \/ LoadData
    \/ Rescale
    \/ PlotDigits
    \/ SubsampleTrain
    \/ FitLogreg
    \/ DumpLogreg
    \/ LoadLogreg
    \/ AccLogreg
    \/ ErrLogreg
    \/ Confusion
    \/ CreateSvc
    \/ SubsampleSvc
    \/ FitSvc
    \/ DumpSvc
    \/ LoadSvc
    \/ PredictSvc
    \/ DumpSvcTest
    \/ LoadSvcTest
    \/ AccSvc
    \/ CreateSvcrbf
    \/ FitDumpSvcrbf
    \/ LoadSvcrbf
    \/ PredictDumpSvcrbf
    \/ LoadSvcrbfTest
    \/ AccSvcrbf
    \/ ErrSvcrbf
    \/ Skip
    \/ Restart

Spec == Init /\ [][Next]_vars

(***************************************************************************)
(* Properties.                                                             *)
(***************************************************************************)
\* the rescale cell of the current run has been executed
Rescaled == pc > CellIndex("Rescale")

\* the rational x lies in the closed interval [-1, 1]
InUnit(x) == x[2] > 0 /\ -x[2] <= x[1] /\ x[1] <= x[2]

\* position of pixel (r, c) in a flattened row
FlatPos(r, c) == (r - 1) * ImgCols + c

Pixels == (1..ImgRows) \X (1..ImgCols)

\* C1: every raw pixel value v in 0..255 is rescaled to (2v - 255)/255, a
\* value of [-1, 1], with 0 mapped to -1 and 255 to 1; after the rescale cell
\* every element of Xtr and Xts lies in [-1, 1], the elements that were 0 are
\* -1 and those that were 255 are 1.
C1_RescaledInRange ==
    /\ last.cell = "Rescale" =>
         /\ \A v \in 0..MaxPixel :
              LET x == RescaleValue(v)
              IN  InUnit(x) /\ x[1] * 255 = (2 * v - 255) * x[2]
         /\ RescaleValue(0) = <<-1, 1>>
         /\ RescaleValue(MaxPixel) = <<1, 1>>
    /\ Rescaled =>
         /\ \A name \in {"Xtr", "Xts"} :
              LET X == Val(env, name)
              IN  \A n \in 1..Len(X) : \A p \in 1..Len(X[n]) : InUnit(X[n][p])
         /\ \A n \in 1..mnist.ntr : \A rc \in Pixels :
              LET v == RawPixel("train", n, rc[1], rc[2])
                  x == Val(env, "Xtr")[n][FlatPos(rc[1], rc[2])]
              IN  /\ v = 0 => x = <<-1, 1>>
                  /\ v = MaxPixel => x = <<1, 1>>

\* the rescale cell has just run on data that holds the pixel values 0 and 255
C1_Witness ==
    /\ last.cell = "Rescale"
    /\ \E n \in 1..mnist.ntr : \E rc \in Pixels :
         /\ RawPixel("train", n, rc[1], rc[2]) = 0
         /\ Val(env, "Xtr")[n][FlatPos(rc[1], rc[2])] = <<-1, 1>>
    /\ \E n \in 1..mnist.ntr : \E rc \in Pixels :
         /\ RawPixel("train", n, rc[1], rc[2]) = MaxPixel
         /\ Val(env, "Xtr")[n][FlatPos(rc[1], rc[2])] = <<1, 1>>

\* the rescaled original images of the data set, as grids and flattened
MaxSamples == IF MaxNtr >= MaxNts THEN MaxNtr ELSE MaxNts

OriginalGrids ==
    [set \in {"train", "test"} |-> [n \in 1..MaxSamples |->
        [r \in 1..ImgRows |-> [c \in 1..ImgCols |->
            RescaleValue(RawPixel(set, n, r, c))]]]]

OriginalRows ==
    [set \in {"train", "test"} |-> [n \in 1..MaxSamples |->
        [p \in 1..(ImgRows * ImgCols) |->
            OriginalGrids[set][n][((p - 1) \div ImgCols) + 1][((p - 1) % ImgCols) + 1]]]]

OriginalRow(set, n) == OriginalRows[set][n]

\* C8: after the rescale cell Xtr is ntr x npix and Xts is nts x npix with
\* npix = nrow*ncol, element (n, r*ncol + c) is the rescaled original pixel
\* (n, r, c), and every image plt_digit has drawn is the rescaled original
\* grid of the sample it was asked to draw.
C8_ShapePreserved ==
    /\ Rescaled =>
         /\ Val(env, "npix") = Val(env, "nrow") * Val(env, "ncol")
         /\ \A s \in {<<"Xtr", "train", mnist.ntr>>, <<"Xts", "test", mnist.nts>>} :
              LET X == Val(env, s[1])
              IN  /\ Len(X) = s[3]
                  /\ \A n \in 1..Len(X) :
                       /\ Len(X[n]) = Val(env, "npix")
                       /\ \A rc \in Pixels :
                            X[n][FlatPos(rc[1], rc[2])] = OriginalGrids[s[2]][n][rc[1]][rc[2]]
    /\ \A i \in 1..Len(fig) :
         /\ Len(fig[i]) = ImgRows
         /\ \A rc \in Pixels :
              /\ Len(fig[i][rc[1]]) = ImgCols
              /\ fig[i][rc[1]][rc[2]]
                   = OriginalGrids["train"][Val(env, "Iperm")[i]][rc[1]][rc[2]]

\* plt_digit has drawn the images of at least two different samples
C8_Witness ==
    /\ last.cell = "PlotDigits"
    /\ Len(fig) >= 2
    /\ fig[1] # fig[2]

\* (X, y) holds, row for row, the rescaled images and the labels of the
\* samples idx[1], idx[2], ... of the data set
SelectedBy(X, y, idx, set) ==
    /\ Len(X) = Len(idx)
    /\ Len(y) = Len(idx)
    /\ \A k \in 1..Len(idx) :
         /\ X[k] = OriginalRow(set, idx[k])
         /\ y[k] = RawLabel(set, idx[k])

\* the first min(n1, n) entries of the permutation perm of 1..n
PermPrefix(perm, n1, n) == [k \in 1..Min(n1, n) |-> perm[k]]

Distinct(idx) == \A i, j \in 1..Len(idx) : idx[i] = idx[j] => i = j

\* C10: right after a cell that selects a sub-sample, (Xtr1, ytr1) are the
\* rows and labels of the samples Iperm[:ntr1], and (Xts1, yts1) those of
\* Iperm_ts[:nts1]: the indices are pairwise distinct, the sub-sample has
\* min(n1, n) rows, and row k and label k belong to the same original sample.
C10_SubsampleAligned ==
    /\ last.cell \in {"SubsampleTrain", "SubsampleSvc"} =>
         LET idx == PermPrefix(Val(env, "Iperm"), Ntr1, mnist.ntr)
         IN  /\ Distinct(idx)
             /\ Len(Val(env, "Xtr1")) = Min(Val(env, "ntr1"), Val(env, "ntr"))
             /\ SelectedBy(Val(env, "Xtr1"), Val(env, "ytr1"), idx, "train")
    /\ (last.cell = "SubsampleSvc" \/ (last.cell = "AccLogreg" /\ last.fault = "none")) =>
         LET idx == PermPrefix(Val(env, "Iperm_ts"), Nts1, mnist.nts)
         IN  /\ Distinct(idx)
             /\ Len(Val(env, "Xts1")) = Min(Val(env, "nts1"), Val(env, "nts"))
             /\ SelectedBy(Val(env, "Xts1"), Val(env, "yts1"), idx, "test")

\* a proper sub-sample was selected by a permutation that is not the identity
C10_Witness ==
    /\ last.cell = "SubsampleSvc"
    /\ Len(Val(env, "Xtr1")) < Val(env, "ntr")
    /\ Val(env, "Iperm")[1] # 1
    /\ Val(env, "Iperm_ts")[1] # 1
    /\ Len(Val(env, "Xts1")) = Val(env, "nts")

\* the positions at which the two label vectors agree
Agreeing(yh, y) == {i \in 1..Len(y) : yh[i] = y[i]}

\* acc is (number of agreeing positions) / (sub-sample size), so it lies in
\* [0, 1], is 1 exactly when all agree and 0 exactly when none does
AccuracyOf(acc, yh, y) ==
    LET agree == Cardinality(Agreeing(yh, y))
    IN  /\ Len(yh) = Len(y)
        /\ acc[2] > 0
        /\ acc[1] * Len(y) = agree * acc[2]
        /\ 0 <= acc[1] /\ acc[1] <= acc[2]
        /\ (acc = <<1, 1>>) <=> (agree = Len(y))
        /\ (acc = <<0, 1>>) <=> (agree = 0)

\* C7: each accuracy cell computes acc as the number of positions of the test
\* sub-sample at which the predicted label equals yts1[i], divided by the
\* sub-sample size; 0 <= acc <= 1, acc = 1 exactly when every prediction
\* agrees and acc = 0 exactly when none does.
C7_Accuracy ==
    /\ (last.cell = "AccLogreg" /\ last.fault = "none") =>
         AccuracyOf(Val(env, "acc"), Val(env, "yhat"), Val(env, "yts1"))
    /\ (last.cell \in {"AccSvc", "AccSvcrbf"} /\ last.fault = "none") =>
         AccuracyOf(Val(env, "acc"), Val(env, "yhat_ts"), Val(env, "yts1"))

\* an accuracy cell has run on predictions that agree at some positions only
C7_Witness ==
    /\ last.cell = "AccSvcrbf"
    /\ last.fault = "none"
    /\ Val(env, "acc") = <<1, 2>>

ModelFiles == {"mnist_logreg.p", "mnist_svc.p", "mnist_svcrbf.p"}

TestFiles == {"mnist_svc_test.p", "mnist_svcrbf_test.p"}

\* the snapshot f has been written (it is not absent or just truncated)
Written(f) == files[f].exists /\ files[f].data # <<>>

\* C2: the classifier written to each model snapshot file was fitted on
\* exactly the training sub-sample (Xtr1, ytr1) written alongside it in the
\* same file.
C2_FittedOnSnapshotSample ==
    \A f \in ModelFiles :
        Written(f) =>
            LET clf == files[f].data[1].value
                Xtr1 == files[f].data[2].value
                ytr1 == files[f].data[3].value
            IN  clf.fitted /\ clf.X = Xtr1 /\ clf.y = ytr1

\* C3 as stated: every snapshot file the notebook writes contains a
\* classifier object together with sample subsets.
C3_EverySnapshotHasClassifier ==
    \A f \in FileNames :
        Written(f) =>
            /\ \E i \in 1..Len(files[f].data) : files[f].data[i].type = "classifier"
            /\ \E i \in 1..Len(files[f].data) : files[f].data[i].type = "ndarray"

\* X and y are a sub-sample of the given set: rows and labels of n samples
IsSubsample(X, y, set, n) ==
    /\ Len(X) = n
    /\ Len(y) = n
    /\ \A k \in 1..n : \E j \in 1..(IF set = "train" THEN mnist.ntr ELSE mnist.nts) :
         X[k] = OriginalRow(set, j) /\ y[k] = RawLabel(set, j)

\* C3 as amended: the three model snapshots hold a classifier object followed
\* by the training sub-sample (Xtr1, ytr1); the two test snapshots hold the
\* test sub-sample (Xts1, yts1) and the predicted labels, and no classifier.
C3_SnapshotContents ==
    /\ \A f \in ModelFiles :
         Written(f) =>
            LET d == files[f].data
            IN  /\ Len(d) >= 3
                /\ d[1].type = "classifier"
                /\ d[1].value.kind = (CASE f = "mnist_logreg.p" -> "logreg"
                                        [] f = "mnist_svc.p" -> "linear"
                                        [] OTHER -> "rbf")
                /\ d[2].type = "ndarray" /\ d[3].type = "ndarray"
                /\ IsSubsample(d[2].value, d[3].value, "train", Min(Ntr1, mnist.ntr))
    /\ \A f \in TestFiles :
         Written(f) =>
            LET d == files[f].data
                ix == IF f = "mnist_svc_test.p" THEN <<1, 2, 3>> ELSE <<3, 2, 1>>
            IN  /\ Len(d) = 3
                /\ \A i \in 1..3 : d[i].type = "ndarray"
                /\ IsSubsample(d[ix[1]].value, d[ix[2]].value, "test", Min(Nts1, mnist.nts))
                /\ Len(d[ix[3]].value) = Min(Nts1, mnist.nts)

\* all five snapshot files have been written
C3_Witness == \A f \in FileNames : Written(f) /\ phase.at = "start"

RECURSIVE RSum(_)
RSum(xs) == IF xs = <<>> THEN RInt(0) ELSE RAdd(Head(xs), RSum(Tail(xs)))

\* C9: after the normalisation step of the confusion-matrix cell, for every
\* class i that has test samples, entry C[i][j] is (number of test samples of
\* true class i predicted as class j) / (number of test samples of true
\* class i), so row i sums to 1.
C9_RowsNormalized ==
    last.cell = "Confusion" =>
        LET y == Val(env, "yts1")
            yh == Val(env, "yhat")
            labels == SortedSeq(Range(y) \cup Range(yh))
            C == Val(env, "C")
            ofClass(i) == {k \in 1..Len(y) : y[k] = labels[i]}
        IN  \A i \in 1..Len(labels) :
                ofClass(i) # {} =>
                    /\ \A j \in 1..Len(labels) :
                         C[i][j] = Rat(Cardinality({k \in ofClass(i) : yh[k] = labels[j]}),
                                       Cardinality(ofClass(i)))
                    /\ RSum(C[i]) = RInt(1)

\* the dump cell, the load cell and the file of each snapshot
Snapshots ==
    { [dump |-> "DumpLogreg", load |-> "LoadLogreg", file |-> "mnist_logreg.p",
       list |-> DumpLogregList, targets |-> LoadLogregTargets],
      [dump |-> "DumpSvc", load |-> "LoadSvc", file |-> "mnist_svc.p",
       list |-> DumpSvcList, targets |-> LoadSvcTargets],
      [dump |-> "DumpSvcTest", load |-> "LoadSvcTest", file |-> "mnist_svc_test.p",
       list |-> DumpSvcTestList, targets |-> LoadSvcTestTargets],
      [dump |-> "FitDumpSvcrbf", load |-> "LoadSvcrbf", file |-> "mnist_svcrbf.p",
       list |-> DumpSvcrbfList, targets |-> LoadSvcrbfTargets],
      [dump |-> "PredictDumpSvcrbf", load |-> "LoadSvcrbfTest",
       file |-> "mnist_svcrbf_test.p",
       list |-> DumpSvcrbfTestList, targets |-> LoadSvcrbfTestTargets] }

\* C4: when a load cell is executed right after its dump cell has completed,
\* every step of the load cell leaves the bindings of the notebook unchanged,
\* and the step that unpacks binds each name of the dumped list to the entry
\* of the file that was dumped under that name.
C4_RoundTrip ==
    [][ \A s \in Snapshots :
          (pc = CellIndex(s.load) /\ last = [cell |-> s.dump, fault |-> "none"]) =>
              /\ env' = env
              /\ (phase.at = "body" /\ phase'.exc = "none") =>
                    \A i \in 1..Len(s.list) :
                        env'[s.list[i]] = <<files[s.file].data[i].value>>
      ]_vars

\* the test snapshot of the linear SVC has been dumped and loaded back while
\* the predictions differ from the true labels
C4_Witness ==
    /\ last = [cell |-> "LoadSvcTest", fault |-> "none"]
    /\ Val(env, "yhat_ts") # Val(env, "yts1")
    /\ Val(env, "yhat_ts") = files["mnist_svc_test.p"].data[3].value

\* the handle the with-statement of cell c holds while it is inside it
CellHandles(c) ==
    {Handle(s.file, "wb") : s \in {t \in Snapshots : t.dump = c}}
        \cup {Handle(s.file, "rb") : s \in {t \in Snapshots : t.load = c}}

C6_MissingFileFault ==
    [][ \A s \in Snapshots :
          (AtCell(s.load) /\ ~files[s.file].exists /\ last'.fault # "skipped") =>
              /\ last' = [cell |-> s.load, fault |-> "FileNotFoundError"]
              /\ env' = env
              /\ files' = files
              /\ handles' = handles
              /\ pc' = pc + 1
              /\ phase' = Start
      ]_vars

\* a load cell was terminated because its file is missing, with the variables
\* it would have assigned still bound to what the earlier cells computed
C6_Witness ==
    /\ last = [cell |-> "LoadSvcrbfTest", fault |-> "FileNotFoundError"]
    /\ ~files["mnist_svcrbf_test.p"].exists
    /\ Val(env, "yhat_ts") = Predict(Val(env, "svc"), Val(env, "Xts1"))
    /\ pc = CellIndex("AccSvcrbf")

\* No cell reads a name that is unbound: the cells fault with NameError in no
\* reachable state, which is why the actions do not model that fault.
CellReads(c) ==
    CASE c = "LoadData" -> {}
      [] c = "Rescale" -> {"nrow", "ncol", "Xtr", "Xts", "ntr", "nts"}
      [] c = "PlotDigits" -> {"ntr", "Xtr"}
      [] c = "SubsampleTrain" -> {"Xtr", "ytr", "Iperm"}
      [] c = "FitLogreg" -> {"Xtr1", "ytr1"}
      [] c = "DumpLogreg" -> Range(DumpLogregList)
      [] c = "AccLogreg" -> {"nts", "Xts", "yts", "logreg"}
      [] c = "ErrLogreg" -> {"yts1", "yhat", "Xts1"}
      [] c = "Confusion" -> {"yts1", "yhat"}
      [] c = "SubsampleSvc" -> {"Xtr", "ytr", "Iperm", "Xts", "yts", "Iperm_ts"}
      [] c = "FitSvc" -> {"svc", "Xtr", "ytr"}
      [] c = "DumpSvc" -> Range(DumpSvcList)
      [] c = "PredictSvc" -> {"svc", "Xts1"}
      [] c = "DumpSvcTest" -> Range(DumpSvcTestList)
      [] c \in {"AccSvc", "AccSvcrbf"} -> {"yhat_ts", "yts1"}
      [] c = "ErrSvcrbf" -> {"yhat_ts", "yts1", "Xts1"}
      [] c = "FitDumpSvcrbf" -> {"svcrbf", "Xtr1", "ytr1"}
      [] c = "PredictDumpSvcrbf" -> {"svcrbf", "Xts1", "yts1"}
      [] OTHER -> {}

NoNameError ==
    pc <= Len(Cells) => \A name \in CellReads(Cells[pc]) : Bound(env, name)

\* C11: in an orderly top-to-bottom run, in which every skippable cell is
\* either run or skipped as its remark allows (the snapshot file left over
\* from an earlier run, resp. the cell before it run), whenever an accuracy
\* cell of the SVCs has executed, yhat_ts is the prediction of the classifier
\* currently bound (svc, resp. svcrbf) on the currently bound Xts1, and yts1
\* holds the labels of the samples of that Xts1.
C11_NoStaleCheckpoint ==
    \A a \in {<<"AccSvc", "svc">>, <<"AccSvcrbf", "svcrbf">>} :
        (last.cell = a[1] /\ clean) =>
            LET clf == Val(env, a[2])
                Xts1 == Val(env, "Xts1")
            IN  /\ clf.fitted
                /\ Val(env, "yhat_ts") = Predict(clf, Xts1)
                /\ IsSubsample(Xts1, Val(env, "yts1"), "test", Len(Xts1))

\* the positions at which the predicted label differs from the true label
Misclassified(yh, y) == {k \in 1..Len(y) : yh[k] # y[k]}

\* the i-th smallest element of the set S of numbers
NthSmallest(S, i) == CHOOSE k \in S : Cardinality({j \in S : j < k}) = i - 1

C12_PlotComplete ==
    /\ last = [cell |-> "ErrLogreg", fault |-> "none"]
    /\ Len(errfig) = NpltErr
    /\ errfig[1].true # errfig[1].est
====
